---- MODULE Spec2Model ----
(***************************************************************************)
(* A model of libuavcan/dsdl_compiler/dsdlc.py, the C++ binding generator  *)
(* of the UAVCAN DSDL compiler.                                            *)
(*                                                                         *)
(* Python strings are modelled as sequences of string pieces whose         *)
(* concatenation is the Python string.  Text that the code inspects        *)
(* character by character (rendered text, full names, paths, float         *)
(* literals) is a sequence of one-character pieces.                        *)
(***************************************************************************)
EXTENDS Integers, Sequences, FiniteSets, TLC

VARIABLES
    \* generate_one_type, lines 161-166: the rendered text and its post-processing
    rendered, text, npc,
    \* generate_one_type, lines 101-108: dependency collection
    ftype, cpp_includes, fpc,
    \* generate_one_type, lines 127-152: constant properties
    ctype, cresult, cpc,
    \* type_to_cpp_type, lines 71-96
    node, cpp_type, mpc,
    \* the script, lines 184-188, run_parser and run_generator; exit_code is
    \* {} while the process runs and {n} once it has exited with status n
    disk0, parsed, pc, types, idx, dirs, files, exc, exit_code

normVars  == <<rendered, text, npc>>
fieldVars == <<ftype, cpp_includes, fpc>>
constVars == <<ctype, cresult, cpc>>
mapVars   == <<node, cpp_type, mpc>>
runVars   == <<disk0, parsed, pc, types, idx, dirs, files, exc, exit_code>>
vars      == <<normVars, fieldVars, constVars, mapVars, runVars>>

\* The values of a group of variables that a specification does not exercise.
IdleNorm  == rendered = <<>> /\ text = <<>> /\ npc = "idle"
IdleField == ftype = <<>> /\ cpp_includes = {} /\ fpc = "idle"
IdleConst == ctype = <<>> /\ cresult = <<>> /\ cpc = "idle"
IdleMap   == node = <<>> /\ cpp_type = <<>> /\ mpc = "idle"
IdleRun   == /\ pc = "idle" /\ parsed = <<>> /\ types = <<>> /\ idx = 0
             /\ disk0 = <<>> /\ dirs = {} /\ files = <<>>
             /\ exc = "" /\ exit_code = {}

(***************************************************************************)
(* String helpers (Python str methods used by the script).                 *)
(***************************************************************************)

\* Sequences over S of length 0..n.
SeqUpTo(S, n) == UNION {[1..k -> S] : k \in 0..n}

\* Index of the first occurrence of piece c in s, 0 when there is none.
RECURSIVE IndexOf(_, _)
IndexOf(s, c) ==
    IF s = <<>> THEN 0
    ELSE IF Head(s) = c THEN 1
    ELSE LET k == IndexOf(Tail(s), c) IN IF k = 0 THEN 0 ELSE k + 1

\* str.splitlines(): the lines of s without their line breaks; a final line
\* break opens no further (empty) line.
RECURSIVE splitlines(_)
splitlines(s) ==
    IF s = <<>> THEN <<>>
    ELSE LET k == IndexOf(s, "\n") IN
         IF k = 0 THEN <<s>>
         ELSE <<SubSeq(s, 1, k - 1)>> \o splitlines(SubSeq(s, k + 1, Len(s)))

\* str.rstrip(): s without its trailing whitespace.
RECURSIVE rstrip(_)
rstrip(s) ==
    IF s = <<>> THEN s
    ELSE IF s[Len(s)] \in {" ", "\n"} THEN rstrip(SubSeq(s, 1, Len(s) - 1))
    ELSE s

\* sep.join(parts)
RECURSIVE join(_, _)
join(sep, parts) ==
    IF parts = <<>> THEN <<>>
    ELSE IF Len(parts) = 1 THEN parts[1]
    ELSE parts[1] \o sep \o join(sep, Tail(parts))

\* str.replace(old, new): every non-overlapping occurrence, leftmost first.
RECURSIVE replace(_, _, _)
replace(s, old, new) ==
    IF Len(s) < Len(old) THEN s
    ELSE IF SubSeq(s, 1, Len(old)) = old
         THEN new \o replace(SubSeq(s, Len(old) + 1, Len(s)), old, new)
    ELSE <<Head(s)>> \o replace(Tail(s), old, new)

(***************************************************************************)
(* Post-processing of the rendered text, generate_one_type lines 163-166.  *)
(***************************************************************************)

NL == "\n"

\* line 163
StripLines(t) ==
    LET lines == splitlines(t) IN
    join(<<NL>>, [k \in 1..Len(lines) |-> rstrip(lines[k])])

\* line 164
CollapseBlankLines(t) ==
    replace(replace(t, <<NL, NL, NL, NL>>, <<NL, NL>>), <<NL, NL, NL>>, <<NL, NL>>)

\* line 165
CollapseBrace(t) == replace(t, <<"{", NL, NL, " ">>, <<"{", NL, " ">>)

\* lines 163-165 in order
Normalize(t) == CollapseBrace(CollapseBlankLines(StripLines(t)))

\* Longest text the template is taken to render.
MaxLen == 7

\* The characters of a rendered text that the post-processing tells apart.
TextAlphabet == {"a", " ", NL, "{"}

InitNorm ==
    /\ rendered \in SeqUpTo(TextAlphabet, MaxLen)
    /\ text = <<>>
    /\ npc = "rendered"

\* template.render(t=t) has returned `rendered`; lines 163-166 produce the
\* text generate_one_type returns.
PostProcess ==
    /\ npc = "rendered"
    /\ text' = Normalize(rendered)
    /\ npc' = "returned"
    /\ UNCHANGED <<rendered, fieldVars, constVars, mapVars, runVars>>

NextNorm == PostProcess

InitSpecNorm == InitNorm /\ IdleField /\ IdleConst /\ IdleMap /\ IdleRun

SpecNorm == InitSpecNorm /\ [][NextNorm]_vars

\* True when t holds n consecutive line breaks.
HasNewlineRun(t, n) ==
    \E k \in 1..(Len(t) - n + 1) : \A j \in 0..(n - 1) : t[k + j] = NL

\* C1: the post-processing is idempotent: applying it to the text that
\* generate_one_type returned changes nothing.
C1_NormalizeIdempotent ==
    npc = "returned" => Normalize(text) = text

\* C2: the text generate_one_type returns holds no run of three or more
\* consecutive line breaks, however long the blank-line runs of the rendered
\* text were.
C2_NoBlankLineRun ==
    npc = "returned" => ~HasNewlineRun(text, 3)

(***************************************************************************)
(* The type graph handed over by pyuavcan.dsdl (the input contract).       *)
(***************************************************************************)

CATEGORY_PRIMITIVE == "primitive"
CATEGORY_ARRAY     == "array"
CATEGORY_COMPOUND  == "compound"
\* A category outside the closed set: a contract violation of the parser.
CATEGORY_UNKNOWN   == "unknown"

KIND_BOOLEAN      == "bool"
KIND_UNSIGNED_INT == "uint"
KIND_SIGNED_INT   == "int"
KIND_FLOAT        == "float"

CAST_MODE_SATURATED == "saturated"
CAST_MODE_TRUNCATED == "truncated"

MODE_STATIC  == "static"
MODE_DYNAMIC == "dynamic"

KIND_MESSAGE == "message"
KIND_SERVICE == "service"

\* Every type node carries the same attributes, those that its category does
\* not have being blank.
PrimitiveType(kind, bitlen, cast_mode) ==
    [category |-> CATEGORY_PRIMITIVE, kind |-> kind, bitlen |-> bitlen,
     cast_mode |-> cast_mode, value_type |-> <<>>, mode |-> "", max_size |-> 0,
     full_name |-> <<>>]

ArrayType(value_type, mode, max_size) ==
    [category |-> CATEGORY_ARRAY, kind |-> "", bitlen |-> 0, cast_mode |-> "",
     value_type |-> value_type, mode |-> mode, max_size |-> max_size,
     full_name |-> <<>>]

CompoundRef(full_name) ==
    [category |-> CATEGORY_COMPOUND, kind |-> "", bitlen |-> 0, cast_mode |-> "",
     value_type |-> <<>>, mode |-> "", max_size |-> 0, full_name |-> full_name]

UnknownType ==
    [category |-> CATEGORY_UNKNOWN, kind |-> "", bitlen |-> 0, cast_mode |-> "",
     value_type |-> <<>>, mode |-> "", max_size |-> 0, full_name |-> <<>>]

\* Full names used by the model: dot-separated namespace paths.
NameX  == <<"a", ".", "X">>
NameY  == <<"b", ".", "X">>
NameZ  == <<"a", ".", "c", ".", "Z">>
NameW  == <<"W">>

(***************************************************************************)
(* The outcome of a Python call: a value, or an exception raised.          *)
(***************************************************************************)

Ok(v)    == [ok |-> TRUE, value |-> v, exc |-> ""]
Raise(e) == [ok |-> FALSE, value |-> <<>>, exc |-> e]

\* '%d' % n
DigitChars == <<"0", "1", "2", "3", "4", "5", "6", "7", "8", "9">>

RECURSIVE FormatInt(_)
FormatInt(n) ==
    IF n < 0 THEN <<"-">> \o FormatInt(-n)
    ELSE IF n < 10 THEN <<DigitChars[n + 1]>>
    ELSE FormatInt(n \div 10) \o <<DigitChars[(n % 10) + 1]>>

(***************************************************************************)
(* type_to_cpp_type, lines 71-96.                                          *)
(***************************************************************************)

\* lines 73-76
CastModeTable ==
    [x \in {CAST_MODE_SATURATED, CAST_MODE_TRUNCATED} |->
        IF x = CAST_MODE_SATURATED THEN "::uavcan::CastModeSaturate"
        ELSE "::uavcan::CastModeTruncate"]

\* lines 80-84
SignednessTable ==
    [x \in {KIND_BOOLEAN, KIND_UNSIGNED_INT, KIND_SIGNED_INT} |->
        IF x = KIND_SIGNED_INT THEN "::uavcan::SignednessSigned"
        ELSE "::uavcan::SignednessUnsigned"]

\* lines 88-91
ArrayModeTable ==
    [x \in {MODE_STATIC, MODE_DYNAMIC} |->
        IF x = MODE_STATIC THEN "::uavcan::ArrayModeStatic"
        ELSE "::uavcan::ArrayModeDynamic"]

\* line 78
FloatSpec(bitlen, cast_mode) ==
    <<"::uavcan::FloatSpec<">> \o FormatInt(bitlen) \o <<", ", cast_mode, ">">>

\* line 85
IntegerSpec(bitlen, signedness, cast_mode) ==
    <<"::uavcan::IntegerSpec<">> \o FormatInt(bitlen)
        \o <<", ", signedness, ", ", cast_mode, ">">>

\* A slip in line 92: the element count is recomputed instead of copied.
ArraySpecRecomputed(value_type, mode, max_size) ==
    <<"::uavcan::Array<">> \o value_type \o <<", ", mode, ", ">>
        \o FormatInt(max_size + 1) \o <<">">>

\* line 92
ArraySpec(value_type, mode, max_size) ==
    <<"::uavcan::Array<">> \o value_type \o <<", ", mode, ", ">>
        \o FormatInt(max_size) \o <<">">>

\* line 94
CompoundSpec(full_name) == <<"::">> \o replace(full_name, <<".">>, <<"::">>)

RECURSIVE type_to_cpp_type(_)
type_to_cpp_type(t) ==
    IF t.category = CATEGORY_PRIMITIVE THEN
        IF t.cast_mode \notin DOMAIN CastModeTable THEN Raise("KeyError")
        ELSE IF t.kind = KIND_FLOAT
             THEN Ok(FloatSpec(t.bitlen, CastModeTable[t.cast_mode]))
        ELSE IF t.kind \notin DOMAIN SignednessTable THEN Raise("KeyError")
        ELSE Ok(IntegerSpec(t.bitlen, SignednessTable[t.kind],
                            CastModeTable[t.cast_mode]))
    ELSE IF t.category = CATEGORY_ARRAY THEN
        LET value_type == type_to_cpp_type(t.value_type) IN
        IF ~value_type.ok THEN value_type
        ELSE IF t.mode \notin DOMAIN ArrayModeTable THEN Raise("KeyError")
        ELSE Ok(ArraySpec(value_type.value, ArrayModeTable[t.mode], t.max_size))
    ELSE IF t.category = CATEGORY_COMPOUND THEN
        Ok(CompoundSpec(t.full_name))
    ELSE Raise("DsdlCompilerException")

\* Deepest nesting of arrays in a type node of the model.
MaxDepth == 2

\* Largest element-count bound of an array of the model.
MaxArraySize == 12

PrimitiveTypes ==
    {PrimitiveType(KIND_BOOLEAN, 1, c) : c \in DOMAIN CastModeTable}
    \cup {PrimitiveType(k, b, c) :
            k \in {KIND_UNSIGNED_INT, KIND_SIGNED_INT}, b \in {8, 32},
            c \in DOMAIN CastModeTable}
    \cup {PrimitiveType(KIND_FLOAT, b, c) : b \in {16, 64}, c \in DOMAIN CastModeTable}

CompoundRefs == {CompoundRef(NameX), CompoundRef(NameZ)}

ArraySizes == {1, 9, MaxArraySize}

\* Type nodes with arrays nested at most d deep.
RECURSIVE SchemaTypes(_)
SchemaTypes(d) ==
    IF d = 0 THEN PrimitiveTypes \cup CompoundRefs \cup {UnknownType}
    ELSE LET inner == SchemaTypes(d - 1) IN
         inner \cup {ArrayType(v, m, n) :
                        v \in inner, m \in DOMAIN ArrayModeTable, n \in ArraySizes}

\* True when every node of t has a category of the closed set.
RECURSIVE WellFormed(_)
WellFormed(t) ==
    \/ t.category \in {CATEGORY_PRIMITIVE, CATEGORY_COMPOUND}
    \/ t.category = CATEGORY_ARRAY /\ WellFormed(t.value_type)

InitMap ==
    /\ node \in SchemaTypes(MaxDepth)
    /\ cpp_type = <<>>
    /\ mpc = "call"

\* a.cpp_type = type_to_cpp_type(a.type), line 116
MapType ==
    /\ mpc = "call"
    /\ cpp_type' = type_to_cpp_type(node)
    /\ mpc' = "mapped"
    /\ UNCHANGED <<node, normVars, fieldVars, constVars, runVars>>

NextMap == MapType

InitSpecMap == IdleNorm /\ IdleField /\ IdleConst /\ InitMap /\ IdleRun

SpecMap == InitSpecMap /\ [][NextMap]_vars

\* Reading an array descriptor back: the pieces between "::uavcan::Array<" and
\* the closing ">" are the element descriptor, ", ", the mode, ", " and the
\* decimal digits of the element count.
RECURSIVE TrailingDigits(_)
TrailingDigits(s) ==
    IF s = <<>> THEN 0
    ELSE IF \E d \in 1..10 : DigitChars[d] = s[Len(s)]
         THEN 1 + TrailingDigits(SubSeq(s, 1, Len(s) - 1))
    ELSE 0

RECURSIVE ParseInt(_)
ParseInt(s) ==
    IF s = <<>> THEN 0
    ELSE 10 * ParseInt(SubSeq(s, 1, Len(s) - 1))
         + (CHOOSE d \in 0..9 : DigitChars[d + 1] = s[Len(s)])

ArrayParams(desc) ==
    LET body == SubSeq(desc, 2, Len(desc) - 1)
        nd   == TrailingDigits(body)
        rest == SubSeq(body, 1, Len(body) - nd)
    IN  [head       |-> desc[1],
         tail       |-> desc[Len(desc)],
         max_size   |-> ParseInt(SubSeq(body, Len(body) - nd + 1, Len(body))),
         digits     |-> nd,
         sep2       |-> rest[Len(rest)],
         mode       |-> rest[Len(rest) - 1],
         sep1       |-> rest[Len(rest) - 2],
         value_type |-> SubSeq(rest, 1, Len(rest) - 3)]

\* C9: for a well-formed array node, nested to any depth of the model,
\* type_to_cpp_type returns an array descriptor whose parameters are the
\* descriptor of value_type, the array's mode and its max_size unchanged.
C9_ArrayDescriptorParams ==
    (mpc = "mapped" /\ node.category = CATEGORY_ARRAY /\ WellFormed(node)) =>
        /\ cpp_type.ok
        /\ LET p == ArrayParams(cpp_type.value) IN
            /\ p.head = "::uavcan::Array<" /\ p.tail = ">"
            /\ p.sep1 = ", " /\ p.sep2 = ", "
            /\ p.digits > 0
            /\ p.max_size = node.max_size
            /\ p.mode = ArrayModeTable[node.mode]
            /\ p.value_type = type_to_cpp_type(node.value_type).value

\* An array of arrays of a compound type with a two-digit element count has
\* been mapped.
C9_Witness ==
    /\ mpc = "mapped"
    /\ node.category = CATEGORY_ARRAY
    /\ node.max_size = MaxArraySize
    /\ node.value_type.category = CATEGORY_ARRAY
    /\ node.value_type.value_type.category = CATEGORY_COMPOUND
    /\ cpp_type.ok

(***************************************************************************)
(* Output file names and dependency collection, lines 33-35 and 101-108.   *)
(***************************************************************************)

\* os.path.sep
PathSep == "/"

CPP_HEADER_EXTENSION == "hpp"

\* str.split(sep) for a one-character separator
RECURSIVE split(_, _)
split(s, sep) ==
    LET k == IndexOf(s, sep) IN
    IF k = 0 THEN <<s>>
    ELSE <<SubSeq(s, 1, k - 1)>> \o split(SubSeq(s, k + 1, Len(s)), sep)

\* A slip in line 35: the namespace is dropped from the file name.
type_output_filename_short(t) ==
    LET parts == split(t.full_name, ".") IN
    parts[Len(parts)] \o <<".", CPP_HEADER_EXTENSION>>

\* lines 33-35; both callers pass a compound type, so the assertion of line 34
\* holds.
type_output_filename(t) ==
    replace(t.full_name, <<".">>, <<PathSep>>) \o <<".", CPP_HEADER_EXTENSION>>

\* A field or a constant: a name, a type node and, for a constant, its
\* literal and numeric value.
Attribute(name, type) == [name |-> name, type |-> type]

\* A slip in line 103: the scan stops at the first compound field.
RECURSIVE fields_includes_first(_)
fields_includes_first(fields) ==
    IF fields = <<>> THEN {}
    ELSE IF Head(fields).type.category = CATEGORY_COMPOUND
         THEN {type_output_filename(Head(fields).type)}
    ELSE fields_includes_first(Tail(fields))

\* lines 102-103: the set built from the generator over the field list.
RECURSIVE fields_includes(_)
fields_includes(fields) ==
    IF fields = <<>> THEN {}
    ELSE (IF Head(fields).type.category = CATEGORY_COMPOUND
          THEN {type_output_filename(Head(fields).type)} ELSE {})
         \cup fields_includes(Tail(fields))

\* lines 105-108
CppIncludes(t) ==
    IF t.kind = KIND_MESSAGE THEN fields_includes(t.fields)
    ELSE fields_includes(t.request_fields \o t.response_fields)

\* Most fields of a compound type of the model (request and response fields
\* together for a service).
MaxFields == 3

Uint8 == PrimitiveType(KIND_UNSIGNED_INT, 8, CAST_MODE_SATURATED)

FieldTypes ==
    { Uint8,
      CompoundRef(NameX),
      CompoundRef(NameZ),
      ArrayType(Uint8, MODE_DYNAMIC, 9),
      ArrayType(CompoundRef(NameX), MODE_DYNAMIC, 9),
      ArrayType(ArrayType(CompoundRef(NameZ), MODE_STATIC, 1), MODE_DYNAMIC, 9) }

FieldNames == <<"f1", "f2", "f3", "f4", "f5", "f6", "f7", "f8">>

\* The field lists with the given types, named f1, f2, ... from position `from`.
NamedFields(ts, from) == [k \in 1..Len(ts) |-> Attribute(FieldNames[from + k], ts[k])]

InitField ==
    /\ \E ts \in SeqUpTo(FieldTypes, MaxFields) :
          \/ ftype = [kind |-> KIND_MESSAGE, fields |-> NamedFields(ts, 0),
                      request_fields |-> <<>>, response_fields |-> <<>>]
          \/ \E k \in 0..Len(ts) :
                ftype = [kind |-> KIND_SERVICE, fields |-> <<>>,
                         request_fields |-> NamedFields(SubSeq(ts, 1, k), 0),
                         response_fields |->
                             NamedFields(SubSeq(ts, k + 1, Len(ts)), k)]
    /\ cpp_includes = {}
    /\ fpc = "call"

\* t.cpp_includes is assigned, lines 105-108
CollectIncludes ==
    /\ fpc = "call"
    /\ cpp_includes' = CppIncludes(ftype)
    /\ fpc' = "collected"
    /\ UNCHANGED <<ftype, normVars, constVars, mapVars, runVars>>

NextField == CollectIncludes

InitSpecField == IdleNorm /\ InitField /\ IdleConst /\ IdleMap /\ IdleRun

SpecField == InitSpecField /\ [][NextField]_vars

\* The compound type a field refers to through any number of array layers, or
\* <<>> when its innermost element type is not compound.
RECURSIVE InnermostCompound(_)
InnermostCompound(t) ==
    IF t.category = CATEGORY_COMPOUND THEN t.full_name
    ELSE IF t.category = CATEGORY_ARRAY THEN InnermostCompound(t.value_type)
    ELSE <<>>

\* All fields of the type whose includes are collected.
AllFields(t) ==
    IF t.kind = KIND_MESSAGE THEN t.fields ELSE t.request_fields \o t.response_fields

\* C3: the include set holds the compound type that every field refers to
\* through any number of Array.value_type layers.
C3_NestedArrayIncludes ==
    fpc = "collected" =>
        \A k \in 1..Len(AllFields(ftype)) :
            LET inner == InnermostCompound(AllFields(ftype)[k].type) IN
            inner # <<>> => type_output_filename(CompoundRef(inner)) \in cpp_includes

Permuted(fields, p) == [k \in 1..Len(fields) |-> fields[p[k]]]

\* Positions of the fields whose own type is compound.
CompoundPositions(fields) ==
    {k \in 1..Len(fields) : fields[k].type.category = CATEGORY_COMPOUND}

\* C4: the collected set does not depend on the order of the fields, holds
\* one entry per compound type that fields are declared with however many
\* fields use it, holds nothing for the other fields, and for a service is the
\* union of the sets of the request fields and of the response fields.
C4_IncludesSetSemantics ==
    fpc = "collected" =>
        LET all == AllFields(ftype) IN
        /\ \A p \in Permutations(1..Len(all)) :
              fields_includes(Permuted(all, p)) = cpp_includes
        /\ \A k \in CompoundPositions(all) :
              type_output_filename(all[k].type) \in cpp_includes
        /\ Cardinality(cpp_includes)
              = Cardinality({all[k].type.full_name : k \in CompoundPositions(all)})
        /\ (CompoundPositions(all) = {}) => cpp_includes = {}
        /\ ftype.kind = KIND_SERVICE =>
              cpp_includes = fields_includes(ftype.request_fields)
                             \cup fields_includes(ftype.response_fields)

\* Two fields of the same compound type after a primitive field, and a field
\* of another compound type, have been collected.
C4_Witness ==
    /\ fpc = "collected"
    /\ Len(AllFields(ftype)) = 3
    /\ AllFields(ftype)[1].type.category = CATEGORY_PRIMITIVE
    /\ AllFields(ftype)[2].type = CompoundRef(NameX)
    /\ AllFields(ftype)[3].type = CompoundRef(NameX)
    /\ Cardinality(cpp_includes) = 1

(***************************************************************************)
(* Constant properties, generate_one_type lines 127-152.                   *)
(***************************************************************************)

MAX_BITLEN_FOR_ENUM == 31

\* A constant of the type graph: name, primitive type, the literal as written
\* and, for the kinds other than float, its numeric value.
Constant(name, type, string_value, value) ==
    [name |-> name, type |-> type, string_value |-> string_value, value |-> value]

\* str.lower() on the letters float() knows.
LowerChar(c) ==
    CASE c = "I" -> "i" [] c = "N" -> "n" [] c = "F" -> "f" [] c = "A" -> "a"
      [] c = "T" -> "t" [] c = "Y" -> "y" [] c = "E" -> "e" [] OTHER -> c

Lower(s) == [k \in 1..Len(s) |-> LowerChar(s[k])]

\* str.strip() on blanks
RECURSIVE lstrip(_)
lstrip(s) == IF s # <<>> /\ Head(s) = " " THEN lstrip(Tail(s)) ELSE s

IsDigits(s) == \A k \in 1..Len(s) : \E d \in 1..10 : DigitChars[d] = s[k]

Unsigned(s) == IF s # <<>> /\ Head(s) \in {"+", "-"} THEN Tail(s) ELSE s

\* A decimal floating-point literal without sign: digits with an optional
\* point and an optional exponent, at least one digit in the mantissa.
IsDecimal(s) ==
    LET e    == IndexOf(Lower(s), "e")
        mant == IF e = 0 THEN s ELSE SubSeq(s, 1, e - 1)
        expo == IF e = 0 THEN <<>> ELSE SubSeq(s, e + 1, Len(s))
        dot  == IndexOf(mant, ".")
        ip   == IF dot = 0 THEN mant ELSE SubSeq(mant, 1, dot - 1)
        fp   == IF dot = 0 THEN <<>> ELSE SubSeq(mant, dot + 1, Len(mant))
    IN  /\ IsDigits(ip) /\ IsDigits(fp) /\ Len(ip) + Len(fp) > 0
        /\ e # 0 => (Unsigned(expo) # <<>> /\ IsDigits(Unsigned(expo)))

\* float(s) returns (TRUE) or raises ValueError (FALSE): blanks around the
\* literal are dropped, a sign is allowed, and the words inf, infinity and nan
\* are accepted in any letter case.
FloatParses(s) ==
    LET body == Unsigned(rstrip(lstrip(s))) IN
    \/ Lower(body) \in {<<"i", "n", "f">>, <<"n", "a", "n">>,
                        <<"i", "n", "f", "i", "n", "i", "t", "y">>}
    \/ IsDecimal(body)

\* line 132
numeric_limits(name) ==
    <<"::std::numeric_limits<typename ::uavcan::StorageType<typename ConstantTypes::",
      name, ">::Type>">>

\* line 133
numeric_limits_inf(name) == numeric_limits(name) \o <<"::infinity()">>

LitInf      == <<"i", "n", "f">>
LitPlusInf  == <<"+", "i", "n", "f">>
LitMinusInf == <<"-", "i", "n", "f">>
LitNan      == <<"n", "a", "n">>

\* lines 134-139
special_values(name) ==
    [x \in {LitInf, LitPlusInf, LitMinusInf, LitNan} |->
        IF x \in {LitInf, LitPlusInf} THEN numeric_limits_inf(name)
        ELSE IF x = LitMinusInf THEN <<"-">> \o numeric_limits_inf(name)
        ELSE numeric_limits(name) \o <<"::quiet_NaN()">>]

\* A slip in line 146: the bound is taken as exclusive.
UseEnumExclusive(c) == c.value >= 0 /\ c.type.bitlen < MAX_BITLEN_FOR_ENUM

\* line 146
UseEnum(c) == c.value >= 0 /\ c.type.bitlen <= MAX_BITLEN_FOR_ENUM

\* The attributes set on one constant by the loop body, lines 130-147;
\* raised is TRUE when float() of line 143 raises, after line 131 has run.
ConstantInfo(c) ==
    IF c.type.kind = KIND_FLOAT THEN
        IF c.string_value \in DOMAIN special_values(c.name)
        THEN [name |-> c.name, cpp_use_enum |-> FALSE, raised |-> FALSE,
              cpp_value |-> special_values(c.name)[c.string_value]]
        ELSE IF FloatParses(c.string_value)
        THEN [name |-> c.name, cpp_use_enum |-> FALSE, raised |-> FALSE,
              cpp_value |-> c.string_value]
        ELSE [name |-> c.name, cpp_use_enum |-> FALSE, raised |-> TRUE,
              cpp_value |-> <<>>]
    ELSE [name |-> c.name, cpp_use_enum |-> UseEnum(c), raised |-> FALSE,
          cpp_value |-> c.string_value]

\* lines 128-147: the constants annotated in order, up to and including the
\* first one whose literal raises.
RECURSIVE inject_constant_info(_)
inject_constant_info(constants) ==
    IF constants = <<>> THEN <<>>
    ELSE LET info == ConstantInfo(Head(constants)) IN
         IF info.raised THEN <<info>>
         ELSE <<info>> \o inject_constant_info(Tail(constants))

Raised(infos) == infos # <<>> /\ infos[Len(infos)].raised

\* lines 148-152
InjectConstants(t) ==
    IF t.kind = KIND_MESSAGE THEN inject_constant_info(t.constants)
    ELSE LET req == inject_constant_info(t.request_constants) IN
         IF Raised(req) THEN req
         ELSE req \o inject_constant_info(t.response_constants)

\* Most constants of a compound type of the model (request and response
\* constants together for a service).
MaxConstants == 2

IntConstantValues ==
    {[kind |-> KIND_BOOLEAN, bitlen |-> 1, value |-> v] : v \in {0, 1}}
    \cup {[kind |-> KIND_UNSIGNED_INT, bitlen |-> b, value |-> v] :
            b \in {8, 31, 32, 64}, v \in {0, 5}}
    \cup {[kind |-> KIND_SIGNED_INT, bitlen |-> b, value |-> v] :
            b \in {8, 31, 32, 64}, v \in {-1, 0, 5}}

FloatLiterals ==
    { LitInf, LitPlusInf, LitMinusInf, LitNan,
      <<"I", "N", "F">>, <<"N", "a", "N">>,
      <<"1", ".", "5">>, <<"-", "2", "e", "3">>,
      <<"a", "b", "c">>, <<>> }

\* The constants of the model, without their names.
ConstantShapes ==
    {[type |-> PrimitiveType(x.kind, x.bitlen, CAST_MODE_SATURATED),
      string_value |-> FormatInt(x.value), value |-> x.value] :
        x \in IntConstantValues}
    \cup {[type |-> PrimitiveType(KIND_FLOAT, 32, CAST_MODE_SATURATED),
           string_value |-> l, value |-> 0] : l \in FloatLiterals}

ConstantNames == <<"A", "B", "C", "D", "E", "F">>

NamedConstants(cs, from) ==
    [k \in 1..Len(cs) |->
        Constant(ConstantNames[from + k], cs[k].type, cs[k].string_value, cs[k].value)]

InitConst ==
    /\ \E cs \in SeqUpTo(ConstantShapes, MaxConstants) :
          \/ ctype = [kind |-> KIND_MESSAGE, constants |-> NamedConstants(cs, 0),
                      request_constants |-> <<>>, response_constants |-> <<>>]
          \/ \E k \in 0..Len(cs) :
                ctype = [kind |-> KIND_SERVICE, constants |-> <<>>,
                         request_constants |-> NamedConstants(SubSeq(cs, 1, k), 0),
                         response_constants |->
                             NamedConstants(SubSeq(cs, k + 1, Len(cs)), k)]
    /\ cresult = <<>>
    /\ cpc = "call"

\* lines 148-152: the constants of the type are annotated
InjectConstantInfo ==
    /\ cpc = "call"
    /\ cresult' = InjectConstants(ctype)
    /\ cpc' = IF Raised(InjectConstants(ctype)) THEN "raised" ELSE "injected"
    /\ UNCHANGED <<ctype, normVars, fieldVars, mapVars, runVars>>

NextConst == InjectConstantInfo

InitSpecConst == IdleNorm /\ IdleField /\ InitConst /\ IdleMap /\ IdleRun

SpecConst == InitSpecConst /\ [][NextConst]_vars

\* The constants of the type in the order in which they are annotated.
AllConstants(t) ==
    IF t.kind = KIND_MESSAGE THEN t.constants
    ELSE t.request_constants \o t.response_constants

\* C5: an integer or boolean constant, of a message or of either part of a
\* service, has cpp_use_enum exactly when its value is not negative and its
\* bit length is at most 31; a float constant never has it.
C5_UseEnumEligibility ==
    cpc \in {"injected", "raised"} =>
        /\ cpc = "injected" => Len(cresult) = Len(AllConstants(ctype))
        /\ \A k \in 1..Len(cresult) :
            LET c == AllConstants(ctype)[k] IN
            /\ cresult[k].name = c.name
            /\ c.type.kind # KIND_FLOAT =>
                  (cresult[k].cpp_use_enum <=> (c.value >= 0 /\ c.type.bitlen <= 31))
            /\ (c.type.kind # KIND_FLOAT /\ c.type.bitlen = 31 /\ c.value = 0)
                  => cresult[k].cpp_use_enum
            /\ (c.type.kind # KIND_FLOAT /\ c.type.bitlen = 32)
                  => ~cresult[k].cpp_use_enum
            /\ (c.type.kind # KIND_FLOAT /\ c.value = -1)
                  => ~cresult[k].cpp_use_enum
            /\ c.type.kind = KIND_FLOAT => ~cresult[k].cpp_use_enum

\* A service whose request constant has 31 bits and value 0 and whose
\* response constant is the float nan has been annotated.
C5_Witness ==
    /\ cpc = "injected"
    /\ ctype.kind = KIND_SERVICE
    /\ Len(ctype.request_constants) = 1 /\ Len(ctype.response_constants) = 1
    /\ ctype.request_constants[1].type.bitlen = 31
    /\ ctype.request_constants[1].value = 0
    /\ cresult[1].cpp_use_enum
    /\ ctype.response_constants[1].string_value = LitNan
    /\ ~cresult[2].cpp_use_enum

\* C6: a float literal is matched with its exact letter case: inf and +inf
\* give the same infinity expression, -inf its negation, nan the quiet NaN; a
\* literal that differs from a special value only in letter case fails, and so
\* does every other literal that is not a decimal floating-point number.
C6_FloatLiteralExactCase ==
    cpc \in {"injected", "raised"} =>
        \A k \in 1..Len(cresult) :
            LET c == AllConstants(ctype)[k]
                lit == c.string_value
                inf == numeric_limits_inf(c.name)
            IN  c.type.kind = KIND_FLOAT =>
                /\ lit \in {LitInf, LitPlusInf} =>
                      (~cresult[k].raised /\ cresult[k].cpp_value = inf)
                /\ lit = LitMinusInf =>
                      (~cresult[k].raised /\ cresult[k].cpp_value = <<"-">> \o inf)
                /\ lit = LitNan =>
                      (~cresult[k].raised
                       /\ cresult[k].cpp_value
                            = numeric_limits(c.name) \o <<"::quiet_NaN()">>)
                /\ (lit \notin {LitInf, LitPlusInf, LitMinusInf, LitNan}
                    /\ Lower(lit) \in {LitInf, LitPlusInf, LitMinusInf, LitNan})
                      => cresult[k].raised
                /\ (lit \notin {LitInf, LitPlusInf, LitMinusInf, LitNan}
                    /\ ~IsDecimal(Unsigned(rstrip(lstrip(lit)))))
                      => cresult[k].raised

(***************************************************************************)
(* generate_one_type as a whole, lines 98-166.  The template is given the  *)
(* annotated type and the text it renders is a function of it; the model   *)
(* keeps the annotated type in place of the text.                          *)
(***************************************************************************)

\* A compound type of the type graph.  default_dtid is {} for None.
CompoundType(full_name, kind, default_dtid, fields, constants, request_fields, request_constants, response_fields, response_constants) ==
    [full_name |-> full_name, kind |-> kind, default_dtid |-> default_dtid,
     fields |-> fields, constants |-> constants,
     request_fields |-> request_fields, request_constants |-> request_constants,
     response_fields |-> response_fields,
     response_constants |-> response_constants]

\* lines 114-116: the descriptors of the attributes in order, up to and
\* including the first one that raises.
RECURSIVE inject_cpp_types(_)
inject_cpp_types(attributes) ==
    IF attributes = <<>> THEN <<>>
    ELSE LET d == type_to_cpp_type(Head(attributes).type) IN
         IF ~d.ok THEN <<d>> ELSE <<d>> \o inject_cpp_types(Tail(attributes))

\* lines 118-125: the attribute lists in the order in which they are mapped
AttributeLists(t) ==
    IF t.kind = KIND_MESSAGE
    THEN [k \in 1..Len(t.fields) |-> t.fields[k].type]
         \o [k \in 1..Len(t.constants) |-> t.constants[k].type]
    ELSE [k \in 1..Len(t.request_fields) |-> t.request_fields[k].type]
         \o [k \in 1..Len(t.request_constants) |-> t.request_constants[k].type]
         \o [k \in 1..Len(t.response_fields) |-> t.response_fields[k].type]
         \o [k \in 1..Len(t.response_constants) |-> t.response_constants[k].type]

\* lines 155-158
CppKindTable ==
    [x \in {KIND_MESSAGE, KIND_SERVICE} |->
        IF x = KIND_MESSAGE THEN "::uavcan::DataTypeKindMessage"
        ELSE "::uavcan::DataTypeKindService"]

\* lines 98-166: the annotated type handed to the template, or the exception
\* that the annotation raises.
generate_one_type(t) ==
    LET parts     == split(t.full_name, ".")
        cpp_types == inject_cpp_types([k \in 1..Len(AttributeLists(t)) |->
                                          [type |-> AttributeLists(t)[k]]])
        infos     == InjectConstants(t)
    IN  IF cpp_types # <<>> /\ ~cpp_types[Len(cpp_types)].ok
        THEN Raise(cpp_types[Len(cpp_types)].exc)
        ELSE IF Raised(infos) THEN Raise("ValueError")
        ELSE IF t.kind \notin DOMAIN CppKindTable THEN Raise("KeyError")
        ELSE Ok([full_name                |-> t.full_name,
                 short_name               |-> parts[Len(parts)],
                 cpp_includes             |-> CppIncludes(t),
                 cpp_namespace_components |-> SubSeq(parts, 1, Len(parts) - 1),
                 has_default_dtid         |-> t.default_dtid # {},
                 cpp_types  |-> [k \in 1..Len(cpp_types) |-> cpp_types[k].value],
                 constants                |-> infos,
                 cpp_kind                 |-> CppKindTable[t.kind]])

(***************************************************************************)
(* The run: the script body (lines 182-188), run_parser and run_generator. *)
(***************************************************************************)

\* ns.Foo of the end-to-end example: one uint8 field, one constant A = 5.
TypeAX ==
    CompoundType(NameX, KIND_MESSAGE, {1},
        <<Attribute("f1", Uint8)>>,
        <<Constant("A", Uint8, <<"5">>, 5)>>, <<>>, <<>>, <<>>, <<>>)

\* ns.Bar of the end-to-end example: a service with empty lists.
TypeBX ==
    CompoundType(NameY, KIND_SERVICE, {}, <<>>, <<>>, <<>>, <<>>, <<>>, <<>>)

TypeZ ==
    CompoundType(NameZ, KIND_MESSAGE, {},
        <<Attribute("f1", CompoundRef(NameX)),
          Attribute("f2", ArrayType(CompoundRef(NameX), MODE_DYNAMIC, 9))>>,
        <<Constant("A", PrimitiveType(KIND_FLOAT, 32, CAST_MODE_SATURATED),
                   LitInf, 0)>>,
        <<>>, <<>>, <<>>, <<>>)

\* A service whose response constant has a literal that is no float.
TypeBadLiteral ==
    CompoundType(<<"a", ".", "L">>, KIND_SERVICE, {}, <<>>, <<>>, <<>>, <<>>, <<>>,
        <<Constant("A", PrimitiveType(KIND_FLOAT, 32, CAST_MODE_SATURATED),
                   <<"a", "b", "c">>, 0)>>)

\* A message with a field of a category the mapper does not know.
TypeBadCategory ==
    CompoundType(NameW, KIND_MESSAGE, {}, <<Attribute("f1", UnknownType)>>,
        <<>>, <<>>, <<>>, <<>>, <<>>)

TypeUniverse == {TypeAX, TypeBX, TypeZ, TypeBadLiteral, TypeBadCategory}

\* Most types that the parser returns in the model.
MaxTypes == 3

\* The sequences of distinct types (full names are unique in the graph).
TypeLists ==
    {ts \in SeqUpTo(TypeUniverse, MaxTypes) :
        \A i, j \in 1..Len(ts) : i # j => ts[i] # ts[j]}

\* os.path.abspath(dest_dir), line 57
DestDir == <<"/", "o">>

\* os.path.join(a, b) for a relative b
PathJoin(a, b) == a \o <<PathSep>> \o b

\* os.path.dirname(p)
RECURSIVE dirname(_)
dirname(p) ==
    IF p = <<>> THEN p
    ELSE IF p[Len(p)] = PathSep THEN SubSeq(p, 1, Len(p) - 1)
    ELSE dirname(SubSeq(p, 1, Len(p) - 1))

\* line 61
FilePath(t) == PathJoin(DestDir, type_output_filename(t))

\* The directories os.makedirs(d) may have to create: d and its parents down
\* to the destination root, the root first.
RECURSIVE MakedirsChain(_)
MakedirsChain(d) ==
    IF Len(d) <= Len(DestDir) THEN <<DestDir>>
    ELSE MakedirsChain(dirname(d)) \o <<d>>

\* The content of a file: the text (as the annotated type it is rendered
\* from) and whether all of it reached the disk.
FileContent(view, complete) == [text |-> view, complete |-> complete]

\* What an earlier run with an older a.X left in the destination directory.
StaleDisk ==
    [dirs  |-> {DestDir, PathJoin(DestDir, <<"a">>)},
     files |-> [p \in {FilePath(TypeAX)} |->
                  FileContent([generate_one_type(TypeAX).value
                                 EXCEPT !.has_default_dtid = FALSE], TRUE)]]

EmptyDisk == [dirs |-> {}, files |-> <<>>]

\* f.write(text) into the file opened with mode 'w'
WriteFile(fs, path, content) ==
    [p \in (DOMAIN fs) \cup {path} |-> IF p = path THEN content ELSE fs[p]]

\* A slip in lines 185-186: the check for an empty result is missing.
NoTypesUnchecked(ts) == FALSE

\* line 185: `not types`
NoTypes(ts) == Len(ts) = 0

\* A slip in lines 56-69: the try statement sits inside the loop, so that a
\* failing type is logged and skipped.
ExceptHandlerSkip(i) == [pc |-> "loop", exit_code |-> {}, idx |-> i + 1]

\* lines 67-69 and 37-39: the handler of run_generator calls die, which exits
\* with code 1; i is the position of the type being generated.
ExceptHandler(i) == [pc |-> "exited", exit_code |-> {1}, idx |-> i]

InitRun ==
    /\ disk0 \in {EmptyDisk, StaleDisk}
    /\ parsed \in {[error |-> TRUE, types |-> <<>>]}
                  \cup {[error |-> FALSE, types |-> ts] : ts \in TypeLists}
    /\ pc = "run_parser"
    /\ types = <<>>
    /\ idx = 0
    /\ dirs = disk0.dirs
    /\ files = disk0.files
    /\ exc = ""
    /\ exit_code = {}

\* lines 46-53 and 184: parse_namespace raises DsdlException and run_parser
\* dies, or its result is bound to `types`.
RunParser ==
    /\ pc = "run_parser"
    /\ \/ /\ parsed.error
          /\ exc' = "DsdlException"
          /\ exit_code' = {1}
          /\ pc' = "exited"
          /\ UNCHANGED types
       \/ /\ ~parsed.error
          /\ types' = parsed.types
          /\ pc' = "check_types"
          /\ UNCHANGED <<exc, exit_code>>
    /\ UNCHANGED <<disk0, parsed, idx, dirs, files,
                   normVars, fieldVars, constVars, mapVars>>

\* lines 185-186
CheckTypes ==
    /\ pc = "check_types"
    /\ \/ /\ NoTypes(types)
          /\ exc' = "No type definitions were found"
          /\ exit_code' = {1}
          /\ pc' = "exited"
       \/ /\ ~NoTypes(types)
          /\ pc' = "run_generator"
          /\ UNCHANGED <<exc, exit_code>>
    /\ UNCHANGED <<disk0, parsed, types, idx, dirs, files,
                   normVars, fieldVars, constVars, mapVars>>

\* lines 56-58: the destination root is made, or os.makedirs raises
StartGenerator ==
    /\ pc = "run_generator"
    /\ \/ /\ dirs' = dirs \cup {DestDir}
          /\ idx' = 1
          /\ pc' = "loop"
          /\ UNCHANGED <<exc, exit_code>>
       \/ /\ DestDir \notin dirs
          /\ exc' = "OSError"
          /\ exit_code' = ExceptHandler(0).exit_code
          /\ pc' = ExceptHandler(0).pc
          /\ idx' = ExceptHandler(0).idx
          /\ UNCHANGED dirs
    /\ UNCHANGED <<disk0, parsed, types, files,
                   normVars, fieldVars, constVars, mapVars>>

\* lines 59-66, one pass of the loop for the type at position idx, with the
\* handler of lines 67-69 when a step raises.
GenerateType ==
    /\ pc = "loop"
    /\ idx <= Len(types)
    /\ LET t         == types[idx]
           file_path == FilePath(t)
           chain     == MakedirsChain(dirname(file_path))
           made      == {chain[k] : k \in 1..Len(chain)}
           gen       == generate_one_type(t)
           handler   == ExceptHandler(idx)
       IN
       \/ \* line 63: os.makedirs raises after making some of the directories
          /\ \E n \in 0..(Len(chain) - 1) :
                /\ chain[n + 1] \notin dirs
                /\ dirs' = dirs \cup {chain[k] : k \in 1..n}
          /\ exc' = "OSError"
          /\ UNCHANGED files
          /\ pc' = handler.pc /\ exit_code' = handler.exit_code /\ idx' = handler.idx
       \/ \* line 64: generate_one_type raises
          /\ ~gen.ok
          /\ dirs' = dirs \cup made
          /\ exc' = gen.exc
          /\ UNCHANGED files
          /\ pc' = handler.pc /\ exit_code' = handler.exit_code /\ idx' = handler.idx
       \/ \* line 65: open raises
          /\ gen.ok
          /\ dirs' = dirs \cup made
          /\ exc' = "OSError"
          /\ UNCHANGED files
          /\ pc' = handler.pc /\ exit_code' = handler.exit_code /\ idx' = handler.idx
       \/ \* line 66: the file is opened (created or truncated) and the write
          \* raises before all of the text is on the disk
          /\ gen.ok
          /\ dirs' = dirs \cup made
          /\ exc' = "OSError on write"
          /\ files' = WriteFile(files, file_path, FileContent(gen.value, FALSE))
          /\ pc' = handler.pc /\ exit_code' = handler.exit_code /\ idx' = handler.idx
       \/ \* lines 65-66: the file is written
          /\ gen.ok
          /\ dirs' = dirs \cup made
          /\ files' = WriteFile(files, file_path, FileContent(gen.value, TRUE))
          /\ idx' = idx + 1
          /\ UNCHANGED <<pc, exc, exit_code>>
    /\ UNCHANGED <<disk0, parsed, types, normVars, fieldVars, constVars, mapVars>>

\* the loop of line 59 is exhausted: run_generator returns and the script ends
FinishGenerator ==
    /\ pc = "loop"
    /\ idx > Len(types)
    /\ pc' = "exited"
    /\ exit_code' = {0}
    /\ UNCHANGED <<disk0, parsed, types, idx, dirs, files, exc,
                   normVars, fieldVars, constVars, mapVars>>

NextRun ==
    \/ RunParser
    \/ CheckTypes
    \/ StartGenerator
    \/ GenerateType
    \/ FinishGenerator

InitSpecRun == IdleNorm /\ IdleField /\ IdleConst /\ IdleMap /\ InitRun

SpecRun == InitSpecRun /\ [][NextRun]_vars

\* The file at path p is as it was before the run.
Untouched(p) ==
    /\ p \in DOMAIN files <=> p \in DOMAIN disk0.files
    /\ p \in DOMAIN files => files[p] = disk0.files[p]

\* The file of type t holds all of the text generated for t.
Written(t) ==
    /\ FilePath(t) \in DOMAIN files
    /\ files[FilePath(t)] = FileContent(generate_one_type(t).value, TRUE)

\* The run was aborted by an error raised inside run_generator.
GeneratorFailed == exc \notin {"", "DsdlException", "No type definitions were found"}

\* C7 as stated: an error while generating or writing the type at position
\* idx ends the run with exit code 1, no file has been written for that type
\* or for a later one, no failing type was skipped, and the files of the types
\* before it are on the disk in full.
C7_AbortWritesNoFile ==
    GeneratorFailed =>
        /\ pc = "exited" /\ exit_code = {1}
        /\ \A k \in 1..Len(types) :
              /\ k < idx => Written(types[k])
              /\ k >= idx => Untouched(FilePath(types[k]))

\* C7 as amended: as above, except that when the error is raised by the
\* write itself the file of the failing type is left behind incomplete; in
\* every other case it is untouched.
C7_AbortKeepsEarlierFiles ==
    /\ exc # "" => (pc = "exited" /\ exit_code = {1})
    /\ pc \in {"loop", "exited"} =>
          \A k \in 1..Len(types) :
              /\ k < idx => Written(types[k])
              /\ k > idx => Untouched(FilePath(types[k]))
    /\ (GeneratorFailed /\ idx >= 1) =>
          IF exc = "OSError on write"
          THEN /\ FilePath(types[idx]) \in DOMAIN files
               /\ ~files[FilePath(types[idx])].complete
          ELSE Untouched(FilePath(types[idx]))
    /\ DOMAIN files \subseteq
          (DOMAIN disk0.files) \cup
              {FilePath(types[k]) : k \in {j \in 1..Len(types) : j <= idx}}

\* The second of three types has a constant with an invalid literal: the run
\* has ended with code 1 with the first file written and no other.
C7_Witness ==
    /\ pc = "exited" /\ exit_code = {1}
    /\ exc = "ValueError"
    /\ Len(types) = 3 /\ idx = 2
    /\ types[2] = TypeBadLiteral
    /\ Written(types[1])
    /\ FilePath(types[3]) \notin DOMAIN files

\* C8: when the parser reports an error or returns no types, the run ends
\* with exit code 1 before run_generator starts: no directory is made and no
\* file is written.
C8_NoTypesNoOutput ==
    (parsed.error \/ parsed.types = <<>>) =>
        /\ pc \notin {"run_generator", "loop"}
        /\ dirs = disk0.dirs
        /\ files = disk0.files
        /\ pc = "exited" =>
              /\ exit_code = {1}
              /\ exc = IF parsed.error THEN "DsdlException"
                       ELSE "No type definitions were found"

\* The parser has returned an empty list and the run has ended with code 1
\* on a disk without the destination directory.
C8_Witness ==
    /\ pc = "exited"
    /\ ~parsed.error /\ parsed.types = <<>>
    /\ exit_code = {1}
    /\ disk0 = EmptyDisk
    /\ dirs = {}

\* The files a successful run leaves, from the set of the types alone.
ExpectedFiles(fs0, S) ==
    [p \in (DOMAIN fs0) \cup {FilePath(t) : t \in S} |->
        IF \E t \in S : FilePath(t) = p
        THEN FileContent(generate_one_type(CHOOSE t \in S : FilePath(t) = p).value,
                         TRUE)
        ELSE fs0[p]]

\* The full name read back from an output path.
PathToName(p) ==
    replace(SubSeq(p, Len(DestDir) + 2, Len(p) - 2), <<PathSep>>, <<".">>)

\* C10: after a run in which every type was generated, the files and their
\* contents are determined by the set of the types, whatever their order:
\* one file per type at dest_dir/full_name with the dots replaced by the
\* path separator and the extension hpp, distinct paths for distinct full
\* names, and in each file the text generated from its own type.
C10_OrderIndependentOutput ==
    (pc = "exited" /\ exit_code = {0}) =>
        LET S == {types[k] : k \in 1..Len(types)} IN
        /\ files = ExpectedFiles(disk0.files, S)
        /\ Cardinality({FilePath(t) : t \in S}) = Len(types)
        /\ \A t \in S :
              LET p == FilePath(t) IN
              /\ SubSeq(p, 1, Len(DestDir) + 1) = DestDir \o <<PathSep>>
              /\ SubSeq(p, Len(p) - 1, Len(p)) = <<".", "hpp">>
              /\ PathToName(p) = t.full_name
              /\ dirname(p) \in dirs
              /\ Written(t)

\* Three types have been generated, a type before the type its field refers
\* to, over the file of an earlier run.
C10_Witness ==
    /\ pc = "exited" /\ exit_code = {0}
    /\ Len(types) = 3
    /\ types[1] = TypeZ /\ types[3] = TypeAX
    /\ disk0 = StaleDisk
    /\ Written(TypeAX) /\ Written(TypeBX) /\ Written(TypeZ)

====
